---- MODULE Spec2Model ----
(***************************************************************************)
(* Crew status tracker: techlog entry form, local-storage persistence and  *)
(* the pilot / aircraft compliance calculations of the dashboards.         *)
(*                                                                         *)
(* Units.  Instants are minutes since 2000-01-01T00:00Z (the code uses     *)
(* milliseconds; every quantity the code handles is a whole number of      *)
(* minutes).  A calendar date string 'YYYY-MM-DD' is the number of days    *)
(* since 2000-01-01.  A time-of-day string 'HH:MM' is the pair <<HH, MM>>  *)
(* and the empty string is <<>>.  Flight times (hours, rounded by the form *)
(* to two decimals) are hundredths of an hour; duty and rest durations are *)
(* minutes.  Arithmetic is exact, not IEEE double.                         *)
(***************************************************************************)
EXTENDS Integers, Sequences, FiniteSets, TLC

VARIABLES
    techlogEntries,   \* localStorage: AppData.techlogEntries
    aircraftStats,    \* localStorage: AppData.aircraftStats
    formData,         \* TechlogEntryForm state: the header fields
    sectors,          \* TechlogEntryForm state: the sector rows
    entryAddedCalls,  \* number of times the form has called onEntryAdded
    lastAlert,        \* the message of the last alert() the form raised
    now,              \* the wall clock read by new Date()
    pilotStats,       \* CrewStatusDashboard state: PilotStats[]
    restCompliance    \* CrewStatusDashboard: what the last render computed per pilot

vars == <<techlogEntries, aircraftStats, formData, sectors, entryAddedCalls,
          lastAlert, now, pilotStats, restCompliance>>

storageVars == <<techlogEntries, aircraftStats>>
formVars == <<formData, sectors, entryAddedCalls, lastAlert>>
dashboardVars == <<pilotStats, restCompliance>>

-----------------------------------------------------------------------------
(* Bounds and input values                                                 *)

MaxSectorRows == 2      \* sector rows the form is grown to
MaxSubmits == 2         \* successful submissions in one run
MaxStatsEntries == 3    \* stored entries the window statistics are drawn over
MaxRestEntries == 3     \* stored entries the rest periods are drawn over
MaxBulkMonth == 26      \* limit runs: every number of daily entries up to this one,
MaxBulkEntries == 101   \* and this number of daily entries and one less
MaxDailyEntries == 3    \* stored entries the daily summaries are drawn over
MaxAircraftEntries == 2 \* stored entries the aircraft rollup is drawn over
MaxEdgeEntries == 3     \* stored entries of days flown to the edges of the day
MaxSparseEntries == 3   \* stored entries drawn with and without sectors

-----------------------------------------------------------------------------
(* Units and time conversions                                              *)

MinutesPerHour == 60
CentiPerHour == 100
MinutesPerDay == 24 * MinutesPerHour

\* UTC offset of the browser's local time zone (Africa/Dar_es_Salaam, where
\* the home base HTDA lies); it has no daylight saving time.
TimezoneOffsetMinutes == 3 * MinutesPerHour

NoTime == <<>>

\* minutes after local midnight of a time-of-day string
ParseTimeOfDay(t) == t[1] * MinutesPerHour + t[2]

\* a string new Date(`2000-01-01T${t}`) can parse; of any other non-empty
\* string (the model writes '25:00', <<25, 0>>) it makes an Invalid Date
IsTimeOfDay(t) == Len(t) = 2 /\ t[1] \in 0..23 /\ t[2] \in 0..59

\* the number NaN (the getTime() of an Invalid Date and what arithmetic makes
\* of it): no duration is negative, so the model writes it as -1 and every
\* operator that can meet it passes it on
NaN == -1

\* new Date(`${date}`).getTime(): a date-only string is parsed as UTC midnight
DateOnlyInstant(date) == date * MinutesPerDay

\* new Date(`${date}T${time}`).getTime(): a date-time string without offset
\* is parsed as local time
LocalInstant(date, t) ==
    date * MinutesPerDay + ParseTimeOfDay(t) - TimezoneOffsetMinutes

\* 2000-01-01, the date calculateDutyTime and the form put before a time
Date2000 == 0

Min(a, b) == IF a <= b THEN a ELSE b
Max(a, b) == IF a >= b THEN a ELSE b

RECURSIVE MathMin(_)
MathMin(s) ==
    IF Len(s) = 1 THEN s[1] ELSE Min(s[1], MathMin(Tail(s)))

RECURSIVE MathMax(_)
MathMax(s) ==
    IF Len(s) = 1 THEN s[1] ELSE Max(s[1], MathMax(Tail(s)))

\* Array.prototype.filter (evaluated by halves to keep the evaluation shallow)
SeqFilter(s, keep(_)) ==
    LET F[lo \in 1..(Len(s) + 1), hi \in 0..Len(s)] ==
          IF lo > hi THEN <<>>
          ELSE IF lo = hi THEN (IF keep(s[lo]) THEN <<s[lo]>> ELSE <<>>)
          ELSE F[lo, (lo + hi) \div 2] \o F[(lo + hi) \div 2 + 1, hi]
    IN  F[1, Len(s)]

\* Array.prototype.reduce((total, x) => total + f(x), 0)
SeqSum(s, f(_)) ==
    LET F[lo \in 1..(Len(s) + 1), hi \in 0..Len(s)] ==
          IF lo > hi THEN 0
          ELSE IF lo = hi THEN f(s[lo])
          ELSE F[lo, (lo + hi) \div 2] + F[(lo + hi) \div 2 + 1, hi]
    IN  F[1, Len(s)]

\* the sequence <<f(1), ..., f(n)>> (Array.prototype.map over the indices)
SeqOf(n, f(_)) ==
    LET F[lo \in 1..(n + 1), hi \in 0..n] ==
          IF lo > hi THEN <<>>
          ELSE IF lo = hi THEN <<f(lo)>>
          ELSE F[lo, (lo + hi) \div 2] \o F[(lo + hi) \div 2 + 1, hi]
    IN  IF n <= 0 THEN <<>> ELSE F[1, n]

\* the indices 1..n that satisfy keep, in ascending order
IndexFilter(n, keep(_)) ==
    LET F[lo \in 1..(n + 1), hi \in 0..n] ==
          IF lo > hi THEN <<>>
          ELSE IF lo = hi THEN (IF keep(lo) THEN <<lo>> ELSE <<>>)
          ELSE F[lo, (lo + hi) \div 2] \o F[(lo + hi) \div 2 + 1, hi]
    IN  IF n <= 0 THEN <<>> ELSE F[1, n]

\* Array.prototype.flatMap(x => f(x))
FlatMap(s, f(_)) ==
    LET F[lo \in 1..(Len(s) + 1), hi \in 0..Len(s)] ==
          IF lo > hi THEN <<>>
          ELSE IF lo = hi THEN f(s[lo])
          ELSE F[lo, (lo + hi) \div 2] \o F[(lo + hi) \div 2 + 1, hi]
    IN  F[1, Len(s)]

-----------------------------------------------------------------------------
(* utils/calculations                                                      *)

FLIGHT_TIME_LIMITS ==
    [MAX_SECTORS_24H |-> 10, MAX_HOURS_7D |-> 34,
     MAX_HOURS_28D |-> 100, MAX_HOURS_365D |-> 1000]

DUTY_TIME_LIMITS ==
    [MAX_HOURS_7D |-> 55, MAX_HOURS_28D |-> 190, MAX_HOURS_365D |-> 1800]

\* hundredths of an hour
calculateFlightTime(ss) == SeqSum(ss, LAMBDA s : s.flightTime)

\* duty from the first sector's takeoff to the last sector's landing
calculateDutyTimeFirstToLast(ss) ==
    IF Len(ss) = 0 THEN 0
    ELSE Max(0, (LocalInstant(Date2000, ss[Len(ss)].landingTime) + 15)
                  - (LocalInstant(Date2000, ss[1].takeoffTime) + 45))

\* duty without the floor at zero
calculateDutyTimeUnfloored(ss) ==
    IF Len(ss) = 0 THEN 0
    ELSE (MathMax(SeqOf(Len(ss), LAMBDA i : LocalInstant(Date2000, ss[i].landingTime))) + 15)
           - (MathMin(SeqOf(Len(ss), LAMBDA i : LocalInstant(Date2000, ss[i].takeoffTime))) + 45)

\* the span from earliest takeoff to latest landing plus one hour, with no
\* case for the empty list
calculateDutyTimePlusHour(ss) ==
    IF Len(ss) = 0 THEN 60
    ELSE MathMax(SeqOf(Len(ss), LAMBDA i : LocalInstant(Date2000, ss[i].landingTime)))
           - MathMin(SeqOf(Len(ss), LAMBDA i : LocalInstant(Date2000, ss[i].takeoffTime)))
           + 60

\* minutes
calculateDutyTime(ss) ==
    IF Len(ss) = 0 THEN 0
    ELSE
      LET takeoffTimes == SeqOf(Len(ss), LAMBDA i : LocalInstant(Date2000, ss[i].takeoffTime))
          landingTimes == SeqOf(Len(ss), LAMBDA i : LocalInstant(Date2000, ss[i].landingTime))
          earliestTakeoff == MathMin(takeoffTimes)
          latestLanding == MathMax(landingTimes)
          dutyStart == earliestTakeoff + 45
          dutyEnd == latestLanding + 15
          dutyTimeMs == dutyEnd - dutyStart
      IN  Max(0, dutyTimeMs)

\* the range with its lower comparison inverted
getEntriesBeforeStart(entries, startDate, endDate) ==
    SeqFilter(entries,
              LAMBDA entry : /\ DateOnlyInstant(entry.date) <= startDate
                             /\ DateOnlyInstant(entry.date) <= endDate)

\* the range with its lower bound excluded
getEntriesAfterStart(entries, startDate, endDate) ==
    SeqFilter(entries,
              LAMBDA entry : /\ DateOnlyInstant(entry.date) > startDate
                             /\ DateOnlyInstant(entry.date) <= endDate)

\* the range decided by the instant of the entry's first takeoff
getEntriesByTakeoffInstant(entries, startDate, endDate) ==
    SeqFilter(entries,
              LAMBDA entry :
                LET instant == IF Len(entry.sectors) = 0
                               THEN DateOnlyInstant(entry.date)
                               ELSE LocalInstant(entry.date, entry.sectors[1].takeoffTime)
                IN  instant >= startDate /\ instant <= endDate)

getEntriesInDateRange(entries, startDate, endDate) ==
    SeqFilter(entries,
              LAMBDA entry : /\ DateOnlyInstant(entry.date) >= startDate
                             /\ DateOnlyInstant(entry.date) <= endDate)

IsPilotOf(entry, pilotName) ==
    entry.pilotName = pilotName \/ entry.coPilotName = pilotName

\* new Date(now.getTime() - days * 24 * 60 * 60 * 1000)
DaysAgo(clock, days) == clock - days * 24 * 60

\* the comparison written total >= LIMIT
ExceedsOrEqual(total, limit) == total >= limit

\* total > LIMIT, the comparison behind every exceedance flag
Exceeds(total, limit) == total > limit

\* the sector total of the last 24 hours, which the code keeps in a local
\* and returns only through the sectors24Hours flag
Sectors24Hours(pilotName, entries, clock) ==
    LET pilotEntries == SeqFilter(entries, LAMBDA entry : IsPilotOf(entry, pilotName))
        twentyFourHoursAgo == DaysAgo(clock, 1)
        entries24Hours == getEntriesInDateRange(pilotEntries, twentyFourHoursAgo, clock)
    IN  SeqSum(entries24Hours, LAMBDA e : Len(e.sectors))

\* the code reads the clock itself (const now = new Date()); the model
\* passes the reading in
calculatePilotStats(pilotName, entries, clock) ==
    LET sevenDaysAgo == DaysAgo(clock, 7)
        twentyEightDaysAgo == DaysAgo(clock, 28)
        threeSixtyFiveDaysAgo == DaysAgo(clock, 365)
        pilotEntries == SeqFilter(entries, LAMBDA entry : IsPilotOf(entry, pilotName))
        entries7Days == getEntriesInDateRange(pilotEntries, sevenDaysAgo, clock)
        entries28Days == getEntriesInDateRange(pilotEntries, twentyEightDaysAgo, clock)
        entries365Days == getEntriesInDateRange(pilotEntries, threeSixtyFiveDaysAgo, clock)
        flightTime7Days == SeqSum(entries7Days, LAMBDA e : calculateFlightTime(e.sectors))
        flightTime28Days == SeqSum(entries28Days, LAMBDA e : calculateFlightTime(e.sectors))
        flightTime365Days == SeqSum(entries365Days, LAMBDA e : calculateFlightTime(e.sectors))
        dutyTime7Days == SeqSum(entries7Days, LAMBDA e : calculateDutyTime(e.sectors))
        dutyTime28Days == SeqSum(entries28Days, LAMBDA e : calculateDutyTime(e.sectors))
        dutyTime365Days == SeqSum(entries365Days, LAMBDA e : calculateDutyTime(e.sectors))
        sectors7Days == SeqSum(entries7Days, LAMBDA e : Len(e.sectors))
        sectors28Days == SeqSum(entries28Days, LAMBDA e : Len(e.sectors))
        sectors365Days == SeqSum(entries365Days, LAMBDA e : Len(e.sectors))
        sectors24Hours == Sectors24Hours(pilotName, entries, clock)
    IN  [pilotName |-> pilotName,
         flightTime7Days |-> flightTime7Days,
         flightTime28Days |-> flightTime28Days,
         flightTime365Days |-> flightTime365Days,
         dutyTime7Days |-> dutyTime7Days,
         dutyTime28Days |-> dutyTime28Days,
         dutyTime365Days |-> dutyTime365Days,
         sectors7Days |-> sectors7Days,
         sectors28Days |-> sectors28Days,
         sectors365Days |-> sectors365Days,
         exceedances |->
           [flightTime7Days |-> Exceeds(flightTime7Days, FLIGHT_TIME_LIMITS.MAX_HOURS_7D * CentiPerHour),
            flightTime28Days |-> Exceeds(flightTime28Days, FLIGHT_TIME_LIMITS.MAX_HOURS_28D * CentiPerHour),
            flightTime365Days |-> Exceeds(flightTime365Days, FLIGHT_TIME_LIMITS.MAX_HOURS_365D * CentiPerHour),
            dutyTime7Days |-> Exceeds(dutyTime7Days, DUTY_TIME_LIMITS.MAX_HOURS_7D * MinutesPerHour),
            dutyTime28Days |-> Exceeds(dutyTime28Days, DUTY_TIME_LIMITS.MAX_HOURS_28D * MinutesPerHour),
            dutyTime365Days |-> Exceeds(dutyTime365Days, DUTY_TIME_LIMITS.MAX_HOURS_365D * MinutesPerHour),
            sectors24Hours |-> Exceeds(sectors24Hours, FLIGHT_TIME_LIMITS.MAX_SECTORS_24H)]]

-----------------------------------------------------------------------------
(* components/CrewStatusDashboard                                          *)

HomeBase == "HTDA"

\* Array.prototype.sort with a comparator (stable): the element at index i
\* goes after every element that compares lower and every earlier element
\* that compares equal
ArraySort(s, cmp(_, _)) ==
    LET n == Len(s)
        rank == SeqOf(n, LAMBDA i :
                   1 + Cardinality({j \in 1..n :
                                      \/ cmp(s[j], s[i]) < 0
                                      \/ cmp(s[j], s[i]) = 0 /\ j < i}))
    IN  SeqOf(n, LAMBDA k : s[CHOOSE i \in 1..n : rank[i] = k])

\* the keys of dailyGroups, in insertion order (Object.entries order): the
\* dates of the entries, each at its first occurrence
GroupDates(pilotEntries) ==
    LET firsts == IndexFilter(Len(pilotEntries),
                              LAMBDA i : \A j \in 1..(i - 1) :
                                           pilotEntries[j].date # pilotEntries[i].date)
    IN  SeqOf(Len(firsts), LAMBDA k : pilotEntries[firsts[k]].date)

\* overnight taken as some sector of the day arriving away from the home base
IsAwayAtSomeArrival(allSectors) ==
    \E k \in 1..Len(allSectors) : allSectors[k].arrival # HomeBase

\* isOvernight: lastSector && lastSector.arrival !== 'HTDA'
IsOvernight(allSectors) ==
    /\ Len(allSectors) > 0
    /\ allSectors[Len(allSectors)].arrival # HomeBase

\* the day summarised from the first of its entries only
DailySummaryOfFirstEntry(date, entries) ==
    LET allSectors == entries[1].sectors
    IN  [date |-> date,
         entries |-> entries,
         sectors |-> allSectors,
         totalFlightTime |-> SeqSum(allSectors, LAMBDA sector : sector.flightTime),
         isOvernight |-> IsOvernight(allSectors)]

\* one element of the array getPilotDailyDetails maps the groups to
DailySummary(date, entries) ==
    LET allSectors == FlatMap(entries, LAMBDA entry : entry.sectors)
    IN  [date |-> date,
         entries |-> entries,
         sectors |-> allSectors,
         totalFlightTime |-> SeqSum(allSectors, LAMBDA sector : sector.flightTime),
         isOvernight |-> IsOvernight(allSectors)]

\* the code loads the entries from localStorage; the model passes them in
getPilotDailyDetails(pilotName, entries) ==
    LET pilotEntries == SeqFilter(entries, LAMBDA entry : IsPilotOf(entry, pilotName))
        dates == GroupDates(pilotEntries)
        days == SeqOf(Len(dates), LAMBDA i :
                   DailySummary(dates[i],
                                SeqFilter(pilotEntries, LAMBDA entry : entry.date = dates[i])))
    IN  ArraySort(days, LAMBDA a, b : DateOnlyInstant(b.date) - DateOnlyInstant(a.date))

\* const sevenDaysAgo = new Date(); sevenDaysAgo.setDate(sevenDaysAgo.getDate() - 7)
\* (local calendar arithmetic; the local zone has no daylight saving time)
SevenDaysAgo(clock) == clock - 7 * MinutesPerDay

getPilotOvernightCount(pilotName, entries, clock) ==
    LET dailyDetails == getPilotDailyDetails(pilotName, entries)
        totalOvernights == Len(SeqFilter(dailyDetails, LAMBDA day : day.isOvernight))
        sevenDaysAgo == SevenDaysAgo(clock)
        recentOvernights ==
          Len(SeqFilter(dailyDetails,
                        LAMBDA day : DateOnlyInstant(day.date) >= sevenDaysAgo
                                     /\ day.isOvernight))
    IN  [totalOvernights |-> totalOvernights, recentOvernights |-> recentOvernights]

\* the comparison written restHours > 36
IsRestLongerThan36(restMinutes) == restMinutes > 36 * MinutesPerHour

\* restHours >= 36
IsRestCompliant(restMinutes) == restMinutes >= 36 * MinutesPerHour

\* the rest taken from landing to takeoff, without the two buffers
RestPeriodBetweenFlights(currentDay, nextDay) ==
    LET restStart == LocalInstant(currentDay.date,
                                  currentDay.sectors[Len(currentDay.sectors)].landingTime)
        restEnd == LocalInstant(nextDay.date, nextDay.sectors[1].takeoffTime)
    IN  [start |-> restStart,
         end |-> restEnd,
         hours |-> restEnd - restStart,
         isCompliant |-> IsRestCompliant(restEnd - restStart),
         fromDate |-> currentDay.date,
         toDate |-> nextDay.date]

\* the rest with the two buffers exchanged: 45 minutes after the landing to
\* 15 minutes after the takeoff
RestPeriodBuffersSwapped(currentDay, nextDay) ==
    LET restStart == LocalInstant(currentDay.date,
                                  currentDay.sectors[Len(currentDay.sectors)].landingTime) + 45
        restEnd == LocalInstant(nextDay.date, nextDay.sectors[1].takeoffTime) + 15
    IN  [start |-> restStart,
         end |-> restEnd,
         hours |-> restEnd - restStart,
         isCompliant |-> IsRestCompliant(restEnd - restStart),
         fromDate |-> currentDay.date,
         toDate |-> nextDay.date]

\* the body of the if inside both rest-period loops
RestPeriod(currentDay, nextDay) ==
    LET lastSectorOfCurrentDay == currentDay.sectors[Len(currentDay.sectors)]
        firstSectorOfNextDay == nextDay.sectors[1]
        lastLandingTime == LocalInstant(currentDay.date, lastSectorOfCurrentDay.landingTime)
        firstTakeoffTime == LocalInstant(nextDay.date, firstSectorOfNextDay.takeoffTime)
        restStart == lastLandingTime + 15
        restEnd == firstTakeoffTime + 45
        restHours == restEnd - restStart
    IN  [start |-> restStart,
         end |-> restEnd,
         hours |-> restHours,
         isCompliant |-> IsRestCompliant(restHours),
         fromDate |-> currentDay.date,
         toDate |-> nextDay.date]

\* the days without sectors left out before the days are paired
RestPeriodLoopOverFlownDays(days) ==
    LET flown == SeqFilter(days, LAMBDA day : Len(day.sectors) > 0)
    IN  SeqOf(Len(flown) - 1, LAMBDA k : RestPeriod(flown[k], flown[k + 1]))

\* for (i = 0; i < days.length - 1; i++) with its if: the rest periods pushed
RestPeriodLoop(days) ==
    LET pairs == IndexFilter(Len(days) - 1,
                             LAMBDA i : Len(days[i].sectors) > 0 /\ Len(days[i + 1].sectors) > 0)
    IN  SeqOf(Len(pairs), LAMBDA k : RestPeriod(days[pairs[k]], days[pairs[k] + 1]))

\* the daily details left in the order getPilotDailyDetails returns them
UnsortedDailyDetails(pilotName, entries) == getPilotDailyDetails(pilotName, entries)

\* sortedDailyDetails: the daily details in chronological order
SortedDailyDetails(pilotName, entries) ==
    ArraySort(getPilotDailyDetails(pilotName, entries),
            LAMBDA a, b : DateOnlyInstant(a.date) - DateOnlyInstant(b.date))

\* restPeriodDetails of the full history
RestPeriodDetails(pilotName, entries) ==
    RestPeriodLoop(SortedDailyDetails(pilotName, entries))

\* the recent days filtered from the daily details as getPilotDailyDetails
\* returns them, most recent first
RecentDailyDetailsUnsorted(pilotName, entries, clock) ==
    SeqFilter(getPilotDailyDetails(pilotName, entries),
              LAMBDA day : DateOnlyInstant(day.date) >= SevenDaysAgo(clock))

\* recentDailyDetails
RecentDailyDetails(pilotName, entries, clock) ==
    SeqFilter(SortedDailyDetails(pilotName, entries),
              LAMBDA day : DateOnlyInstant(day.date) >= SevenDaysAgo(clock))

\* compliance taken as some recent rest period being compliant
IsPartlyCompliant(recentTotalRestPeriods, recentCompliantRestPeriods) ==
    recentTotalRestPeriods = 0 \/ recentCompliantRestPeriods > 0

\* recentTotalRestPeriods === 0 || recentCompliantRestPeriods === recentTotalRestPeriods
IsFullyCompliant(recentTotalRestPeriods, recentCompliantRestPeriods) ==
    recentTotalRestPeriods = 0 \/ recentCompliantRestPeriods = recentTotalRestPeriods

\* the code loads the entries and reads the clock itself
getPilotRestCompliance(pilotName, entries, clock) ==
    LET restPeriodDetails == RestPeriodDetails(pilotName, entries)
        totalRestPeriods == Len(restPeriodDetails)
        compliantRestPeriods ==
          Len(SeqFilter(restPeriodDetails, LAMBDA r : r.isCompliant))
        recentRestPeriodDetails ==
          RestPeriodLoop(RecentDailyDetails(pilotName, entries, clock))
        recentTotalRestPeriods == Len(recentRestPeriodDetails)
        recentCompliantRestPeriods ==
          Len(SeqFilter(recentRestPeriodDetails, LAMBDA r : r.isCompliant))
        isFullyCompliant ==
          IsFullyCompliant(recentTotalRestPeriods, recentCompliantRestPeriods)
        overnightCounts == getPilotOvernightCount(pilotName, entries, clock)
    IN  [totalOvernights |-> overnightCounts.totalOvernights,
         totalRestPeriods |-> totalRestPeriods,
         compliantRestPeriods |-> compliantRestPeriods,
         recentOvernights |-> overnightCounts.recentOvernights,
         recentRestPeriods |-> recentTotalRestPeriods,
         recentCompliantRestPeriods |-> recentCompliantRestPeriods,
         isFullyCompliant |-> isFullyCompliant,
         recentRestPeriodDetails |-> recentRestPeriodDetails]

\* Array.from(new Set(...)).sort() over the pilot and co-pilot names
getAllPilotNames(entries) ==
    {entries[i].pilotName : i \in 1..Len(entries)}
      \cup {entries[i].coPilotName : i \in {j \in 1..Len(entries) : entries[j].coPilotName # ""}}

-----------------------------------------------------------------------------
(* utils/storage                                                           *)

\* the entry put at the front of the list
unshiftTechlogEntry(entries, entry) == <<entry>> \o entries

\* data.techlogEntries.push(entry) between a load and a save
addTechlogEntry(entries, entry) == Append(entries, entry)

\* an upsert that keeps the record a registration already has
updateAircraftStatsKeepExisting(statsList, stats) ==
    IF \E i \in 1..Len(statsList) : statsList[i].registration = stats.registration
    THEN statsList
    ELSE Append(statsList, stats)

\* a push of the record without the search for the registration
pushAircraftStats(statsList, stats) == Append(statsList, stats)

\* the aircraftStats array after the upsert
updateAircraftStats(statsList, stats) ==
    LET matching == {i \in 1..Len(statsList) : statsList[i].registration = stats.registration}
    IN  IF matching # {}
        THEN LET existingIndex == CHOOSE i \in matching : \A j \in matching : i <= j
             IN  [statsList EXCEPT ![existingIndex] = stats]
        ELSE Append(statsList, stats)

\* the totals taken over the entries of every aircraft
calculateFleetStats(registration, entries) ==
    [registration |-> registration,
     totalCycles |-> SeqSum(entries, LAMBDA entry : Len(entry.sectors)),
     totalFlightHours |-> SeqSum(entries, LAMBDA entry : calculateFlightTime(entry.sectors))]

\* lastUpdated (the clock reading) is not modelled
calculateAircraftStats(registration, entries) ==
    LET aircraftEntries ==
          SeqFilter(entries, LAMBDA entry : entry.aircraftRegistration = registration)
    IN  [registration |-> registration,
         totalCycles |-> SeqSum(aircraftEntries, LAMBDA entry : Len(entry.sectors)),
         totalFlightHours |->
           SeqSum(aircraftEntries, LAMBDA entry : calculateFlightTime(entry.sectors))]

-----------------------------------------------------------------------------
(* components/TechlogEntryForm                                             *)

\* String.prototype.toUpperCase on the registrations the model types in
ToUpperCase(str) ==
    CASE str = "5h-tcb" -> "5H-TCB"
      [] str = "5h-abc" -> "5H-ABC"
      [] OTHER -> str

\* new Date().toISOString().split('T')[0]: the UTC calendar date of the clock
TodayIso(clock) == clock \div MinutesPerDay

EmptySector ==
    [departure |-> "", arrival |-> "", takeoffTime |-> NoTime,
     landingTime |-> NoTime, flightTime |-> 0]

InitialFormData(clock) ==
    [techlogNumber |-> "", date |-> TodayIso(clock), aircraftRegistration |-> "",
     pilotName |-> "", coPilotName |-> ""]

\* the difference taken without the overnight wrap
formCalculateFlightTimeSameDay(takeoffTime, landingTime) ==
    IF takeoffTime = NoTime \/ landingTime = NoTime THEN 0
    ELSE LocalInstant(Date2000, landingTime) - LocalInstant(Date2000, takeoffTime)

\* minutes; the code returns hours
formCalculateFlightTime(takeoffTime, landingTime) ==
    IF takeoffTime = NoTime \/ landingTime = NoTime THEN 0
    ELSE IF ~IsTimeOfDay(takeoffTime) \/ ~IsTimeOfDay(landingTime) THEN NaN
    ELSE
      LET takeoff == LocalInstant(Date2000, takeoffTime)
          landing0 == LocalInstant(Date2000, landingTime)
          landing == IF landing0 < takeoff THEN landing0 + MinutesPerDay ELSE landing0
          diffMs == landing - takeoff
      IN  diffMs

\* Math.round(flightTime * 100) / 100 of a duration given in minutes, as
\* hundredths of an hour (Math.round rounds halves up)
RoundToCentiHours(minutes) ==
    IF minutes = NaN THEN NaN
    ELSE (2 * minutes * CentiPerHour + MinutesPerHour) \div (2 * MinutesPerHour)

\* a sector row with all four fields populated
\* a row counted as valid as soon as both airports are given
HasBothAirports(sector) ==
    /\ sector.departure # ""
    /\ sector.arrival # ""

IsValidSector(sector) ==
    /\ sector.departure # ""
    /\ sector.arrival # ""
    /\ sector.takeoffTime # NoTime
    /\ sector.landingTime # NoTime

\* a check of the techlog number alone
HasTechlogNumber(data) == data.techlogNumber # ""

\* the required fields of the form, checked before anything is stored
HasRequiredFields(data) ==
    /\ data.techlogNumber # ""
    /\ data.aircraftRegistration # ""
    /\ data.pilotName # ""

handleInputChange(field, value) ==
    /\ formData' = [formData EXCEPT ![field] = value]
    /\ UNCHANGED <<sectors, entryAddedCalls, lastAlert>>
    /\ UNCHANGED <<storageVars, now, dashboardVars>>

handleSectorChange(index, field, value) ==
    /\ index \in 1..Len(sectors)
    /\ sectors' = [sectors EXCEPT ![index] = [@ EXCEPT ![field] = value]]
    /\ UNCHANGED <<formData, entryAddedCalls, lastAlert>>
    /\ UNCHANGED <<storageVars, now, dashboardVars>>

handleAddSector ==
    /\ Len(sectors) < MaxSectorRows
    /\ sectors' = Append(sectors, EmptySector)
    /\ UNCHANGED <<formData, entryAddedCalls, lastAlert>>
    /\ UNCHANGED <<storageVars, now, dashboardVars>>

handleRemoveSector(index) ==
    /\ index \in 1..Len(sectors)
    /\ Len(sectors) > 1
    /\ sectors' = SubSeq(sectors, 1, index - 1) \o SubSeq(sectors, index + 1, Len(sectors))
    /\ UNCHANGED <<formData, entryAddedCalls, lastAlert>>
    /\ UNCHANGED <<storageVars, now, dashboardVars>>

\* a handler that derives the flight time on landing-time edits only
handleTimeChangeOnLanding(index, field, value) ==
    /\ index \in 1..Len(sectors)
    /\ LET sector == sectors[index]
           edited == [sector EXCEPT ![field] = value]
       IN  sectors' =
             IF field = "landingTime" /\ value # NoTime /\ sector.takeoffTime # NoTime
             THEN [sectors EXCEPT ![index] =
                     [edited EXCEPT !.flightTime =
                        RoundToCentiHours(
                          formCalculateFlightTime(sector.takeoffTime, value))]]
             ELSE [sectors EXCEPT ![index] = edited]
    /\ UNCHANGED <<formData, entryAddedCalls, lastAlert>>
    /\ UNCHANGED <<storageVars, now, dashboardVars>>

handleTimeChange(index, field, value) ==
    /\ index \in 1..Len(sectors)
    /\ LET sector == sectors[index]
           otherField == IF field = "takeoffTime" THEN "landingTime" ELSE "takeoffTime"
           otherTime == sector[otherField]
           edited == [sector EXCEPT ![field] = value]
       IN  sectors' =
             IF value # NoTime /\ otherTime # NoTime
             THEN LET flightTime ==
                        formCalculateFlightTime(
                          IF field = "takeoffTime" THEN value ELSE otherTime,
                          IF field = "landingTime" THEN value ELSE otherTime)
                  IN  [sectors EXCEPT ![index] =
                         [edited EXCEPT !.flightTime = RoundToCentiHours(flightTime)]]
             ELSE [sectors EXCEPT ![index] = edited]
    /\ UNCHANGED <<formData, entryAddedCalls, lastAlert>>
    /\ UNCHANGED <<storageVars, now, dashboardVars>>

\* the TechlogEntry built by handleSubmit (id and createdAt are not modelled)
FormEntry(validSectors) ==
    [techlogNumber |-> formData.techlogNumber,
     date |-> formData.date,
     aircraftRegistration |-> ToUpperCase(formData.aircraftRegistration),
     pilotName |-> formData.pilotName,
     coPilotName |-> formData.coPilotName,
     sectors |-> validSectors]

handleSubmit ==
    /\ entryAddedCalls < MaxSubmits
    /\ LET validSectors == SeqFilter(sectors, IsValidSector)
       IN  IF ~HasRequiredFields(formData)
           THEN /\ lastAlert' = "Please fill in all required fields"
                /\ UNCHANGED <<formData, sectors, entryAddedCalls, storageVars>>
           ELSE IF Len(validSectors) = 0
           THEN /\ lastAlert' = "Please add at least one valid sector"
                /\ UNCHANGED <<formData, sectors, entryAddedCalls, storageVars>>
           ELSE LET entry == FormEntry(validSectors)
                    stored == addTechlogEntry(techlogEntries, entry)
                    stats == calculateAircraftStats(
                               ToUpperCase(formData.aircraftRegistration), stored)
                IN  /\ techlogEntries' = stored
                    /\ aircraftStats' = updateAircraftStats(aircraftStats, stats)
                    /\ formData' = InitialFormData(now)
                    /\ sectors' = <<EmptySector>>
                    /\ entryAddedCalls' = entryAddedCalls + 1
                    /\ UNCHANGED lastAlert
    /\ UNCHANGED <<now, dashboardVars>>

clearAllData ==
    /\ techlogEntries' = <<>>
    /\ aircraftStats' = <<>>
    /\ UNCHANGED <<formVars, now, dashboardVars>>

-----------------------------------------------------------------------------
(* Input values                                                            *)

\* 2024-01-01 as days since 2000-01-01
Today == 24 * 365 + 6

\* clock readings: midnight UTC of Today, and one minute later
NowValues == {Today * MinutesPerDay, Today * MinutesPerDay + 1}

PilotNames == {"A. Smith", "B. Jones"}

\* sequences over S of length at most n
BoundedSeq(S, n) == UNION {[1..k -> S] : k \in 0..n}

\* a sector as the form stores it: the flight time the form derived
StoredSector(departure, arrival, takeoffTime, landingTime) ==
    [departure |-> departure, arrival |-> arrival,
     takeoffTime |-> takeoffTime, landingTime |-> landingTime,
     flightTime |-> RoundToCentiHours(formCalculateFlightTime(takeoffTime, landingTime))]

StoredEntry(date, pilotName, coPilotName, ss) ==
    [techlogNumber |-> "TL-001", date |-> date, aircraftRegistration |-> "5H-TCB",
     pilotName |-> pilotName, coPilotName |-> coPilotName, sectors |-> ss]

\* an entry of another aircraft
StoredEntryOf(registration, date, pilotName, coPilotName, ss) ==
    [StoredEntry(date, pilotName, coPilotName, ss)
       EXCEPT !.aircraftRegistration = registration]

\* the aircraftStats the submissions of these entries leave behind: one
\* record per registration, in the order of the registrations' first entries
RollupOf(entries) ==
    LET firsts == IndexFilter(Len(entries),
                              LAMBDA i : \A j \in 1..(i - 1) :
                                           entries[j].aircraftRegistration
                                             # entries[i].aircraftRegistration)
    IN  SeqOf(Len(firsts),
              LAMBDA k : calculateAircraftStats(entries[firsts[k]].aircraftRegistration,
                                                entries))

-----------------------------------------------------------------------------
(* The dashboard's effect and render, and the clock                        *)

\* CrewStatusDashboard: useEffect on refreshTrigger, then the render it causes
LoadDashboard ==
    /\ pilotStats' = [name \in getAllPilotNames(techlogEntries) |->
                        calculatePilotStats(name, techlogEntries, now)]
    /\ restCompliance' = [name \in getAllPilotNames(techlogEntries) |->
                            getPilotRestCompliance(name, techlogEntries, now)]
    /\ UNCHANGED <<storageVars, formVars, now>>

\* a re-render (search, sort, tab or row click): the rows of pilotStats are
\* drawn again, each calling getPilotRestCompliance on the stored entries
RenderDashboard ==
    /\ restCompliance' = [name \in DOMAIN pilotStats |->
                            getPilotRestCompliance(name, techlogEntries, now)]
    /\ UNCHANGED <<storageVars, formVars, now, pilotStats>>

Tick ==
    /\ \E t \in NowValues : t > now /\ now' = t
    /\ UNCHANGED <<storageVars, formVars, dashboardVars>>

-----------------------------------------------------------------------------
(* The application: the form and the storage, started on empty storage     *)

TechlogNumbers == {"", "TL-001"}
Registrations == {"", "5h-tcb"}
FormPilotNames == {"", "A. Smith"}
Departures == {"", "HTDA"}
Arrivals == {"", "KSEA"}
FormTakeoffs == {NoTime, <<23, 30>>}
FormLandings == {NoTime, <<0, 15>>}

Init ==
    /\ now = Today * MinutesPerDay
    /\ techlogEntries = <<>>
    /\ aircraftStats = <<>>
    /\ formData = InitialFormData(now)
    /\ sectors = <<EmptySector>>
    /\ entryAddedCalls = 0
    /\ lastAlert = ""
    /\ pilotStats = <<>>
    /\ restCompliance = <<>>

Next ==
    \/ \E value \in TechlogNumbers : handleInputChange("techlogNumber", value)
    \/ \E value \in Registrations : handleInputChange("aircraftRegistration", value)
    \/ \E value \in FormPilotNames : handleInputChange("pilotName", value)
    \/ \E index \in 1..MaxSectorRows, value \in Departures :
         handleSectorChange(index, "departure", value)
    \/ \E index \in 1..MaxSectorRows, value \in Arrivals :
         handleSectorChange(index, "arrival", value)
    \/ \E index \in 1..MaxSectorRows, value \in FormTakeoffs :
         handleTimeChange(index, "takeoffTime", value)
    \/ \E index \in 1..MaxSectorRows, value \in FormLandings :
         handleTimeChange(index, "landingTime", value)
    \/ handleAddSector
    \/ \E index \in 1..MaxSectorRows : handleRemoveSector(index)
    \/ handleSubmit
    \/ clearAllData

Spec == Init /\ [][Next]_vars

-----------------------------------------------------------------------------
(* The dashboard over stored data                                          *)

DashboardNext ==
    \/ LoadDashboard
    \/ RenderDashboard
    \/ Tick

\* the application opened on entries left in localStorage by earlier sessions
InitStored(entries) ==
    /\ now \in NowValues
    /\ techlogEntries = entries
    /\ aircraftStats = RollupOf(entries)
    /\ formData = InitialFormData(now)
    /\ sectors = <<EmptySector>>
    /\ entryAddedCalls = 0
    /\ lastAlert = ""
    /\ pilotStats = <<>>
    /\ restCompliance = <<>>

(* Window statistics: entries dated on, inside and outside each window     *)

StatsDates == {Today - 365, Today - 28, Today - 7, Today, Today + 1}

DayFlight == <<StoredSector("HTDA", "KSEA", <<6, 0>>, <<18, 30>>)>>

\* two sectors stored latest first
UnorderedFlights ==
    <<StoredSector("KLAX", "KSEA", <<11, 30>>, <<13, 45>>),
      StoredSector("KJFK", "KLAX", <<7, 0>>, <<10, 30>>)>>

\* a sector landing after midnight
NightFlight == <<StoredSector("HTDA", "HTZA", <<23, 30>>, <<0, 15>>)>>

StatsEntries ==
    {StoredEntry(date, "A. Smith", "", DayFlight) : date \in StatsDates}
      \cup {StoredEntry(date, "B. Jones", "A. Smith", UnorderedFlights) : date \in StatsDates}
      \cup {StoredEntry(date, "B. Jones", "", NightFlight) : date \in {Today - 7, Today}}

InitStats == \E entries \in BoundedSeq(StatsEntries, MaxStatsEntries) : InitStored(entries)

SpecStats == InitStats /\ [][DashboardNext]_vars

(* Limits: one entry a day for the last n days, all with the same sectors  *)

\* a day of one sector taking off at midnight
BulkDay(landingTime) == <<StoredSector("HTDA", "HTDA", <<0, 0>>, landingTime)>>

\* a day of n half-hour hops
BulkHops(n) == SeqOf(n, LAMBDA i : StoredSector("HTDA", "HTDA", <<i, 0>>, <<i, 30>>))

BulkSectorLists ==
    {BulkDay(landingTime) :
       landingTime \in {<<4, 0>>, <<4, 15>>, <<10, 0>>, <<10, 30>>, <<11, 30>>, <<18, 30>>}}
      \cup {BulkHops(5), BulkHops(6)}

BulkEntries(n, ss) == SeqOf(n, LAMBDA i : StoredEntry(Today - i + 1, "A. Smith", "", ss))

BulkCounts == (0..MaxBulkMonth) \cup {MaxBulkEntries - 1, MaxBulkEntries}

InitLimits ==
    \E n \in BulkCounts, ss \in BulkSectorLists : InitStored(BulkEntries(n, ss))

SpecLimits == InitLimits /\ [][DashboardNext]_vars

(* Rest periods: duty days around the 36 hour and the seven day boundaries *)

RestDates == {Today - 8, Today - 7, Today - 2, Today}

\* a day ending at 18:30 and a day starting at 06:00
LongDay == <<StoredSector("HTDA", "KSEA", <<6, 0>>, <<18, 30>>)>>

\* a day starting at 05:59
EarlyDay == <<StoredSector("KSEA", "HTDA", <<5, 59>>, <<7, 0>>)>>

RestEntries ==
    {StoredEntry(date, "A. Smith", "", LongDay) : date \in RestDates}
      \cup {StoredEntry(date, "A. Smith", "", EarlyDay) : date \in {Today - 2, Today}}
      \cup {StoredEntry(date, "A. Smith", "", UnorderedFlights) : date \in {Today - 7, Today - 2}}
      \cup {StoredEntry(Today - 2, "A. Smith", "B. Jones", LongDay),
            StoredEntry(Today, "B. Jones", "", EarlyDay)}

InitRest == \E entries \in BoundedSeq(RestEntries, MaxRestEntries) : InitStored(entries)

SpecRest == InitRest /\ [][DashboardNext]_vars

(* Daily summaries: two days of one pilot, with several entries on a day   *)

\* 2024-01-01: KJFK-KLAX 07:00-10:30, KLAX-KSEA 11:30-13:45
ExampleDay1 ==
    <<StoredSector("KJFK", "KLAX", <<7, 0>>, <<10, 30>>),
      StoredSector("KLAX", "KSEA", <<11, 30>>, <<13, 45>>)>>

\* 2024-01-03: KSEA-KJFK 06:00-14:00
ExampleDay3 == <<StoredSector("KSEA", "KJFK", <<6, 0>>, <<14, 0>>)>>

\* a sector back to the home base
ReturnFlight == <<StoredSector("KSEA", "HTDA", <<15, 0>>, <<16, 0>>)>>

DailyEntries ==
    {StoredEntry(Today, "A. Smith", "", ExampleDay1),
     StoredEntry(Today + 2, "A. Smith", "", ExampleDay3),
     StoredEntry(Today, "B. Jones", "A. Smith", ExampleDay3)}
      \cup {StoredEntry(date, "A. Smith", "", ReturnFlight) :
              date \in {Today, Today + 1, Today + 2}}

InitDaily == \E entries \in BoundedSeq(DailyEntries, MaxDailyEntries) : InitStored(entries)

SpecDaily == InitDaily /\ [][DashboardNext]_vars

(* Aircraft rollup: a submission on top of the entries of two aircraft     *)

StoredRegistrations == {"5H-TCB", "5H-ABC"}

AircraftEntries ==
    {StoredEntryOf(registration, Today, "A. Smith", "", ss) :
       registration \in StoredRegistrations, ss \in {DayFlight, UnorderedFlights}}

InitAircraft ==
    \E entries \in BoundedSeq(AircraftEntries, MaxAircraftEntries) : InitStored(entries)

\* one row filled in and submitted, for either aircraft
AircraftNext ==
    \/ handleInputChange("techlogNumber", "TL-002")
    \/ \E value \in {"5h-tcb", "5h-abc"} : handleInputChange("aircraftRegistration", value)
    \/ handleInputChange("pilotName", "B. Jones")
    \/ handleSectorChange(1, "departure", "HTDA")
    \/ handleSectorChange(1, "arrival", "KSEA")
    \/ handleTimeChange(1, "takeoffTime", <<23, 30>>)
    \/ handleTimeChange(1, "landingTime", <<0, 15>>)
    \/ handleSubmit

SpecAircraft == InitAircraft /\ [][AircraftNext]_vars

\* the same sessions with the storage cleared at any moment
StorageNext ==
    \/ AircraftNext
    \/ clearAllData

SpecStorage == InitAircraft /\ [][StorageNext]_vars

(* Sector rows: a form of several rows, with different departures, filled *)
(* in, submitted and cleared on empty storage                              *)

RowDepartures == {"HTDA", "HTZA"}

RowsNext ==
    \/ handleInputChange("techlogNumber", "TL-002")
    \/ handleInputChange("aircraftRegistration", "5h-tcb")
    \/ handleInputChange("pilotName", "B. Jones")
    \/ \E index \in 1..MaxSectorRows, value \in RowDepartures :
         handleSectorChange(index, "departure", value)
    \/ \E index \in 1..MaxSectorRows : handleSectorChange(index, "arrival", "KSEA")
    \/ \E index \in 1..MaxSectorRows : handleTimeChange(index, "takeoffTime", <<23, 30>>)
    \/ \E index \in 1..MaxSectorRows : handleTimeChange(index, "landingTime", <<0, 15>>)
    \/ handleAddSector
    \/ \E index \in 1..MaxSectorRows : handleRemoveSector(index)
    \/ handleSubmit
    \/ clearAllData

SpecRows == Init /\ [][RowsNext]_vars

(* Timed entry: the times of the one row edited, cleared and edited again, *)
(* and the row submitted, on empty storage                                 *)

EditedTimeValues == {NoTime, <<6, 10>>, <<23, 30>>}

TimedEntryNext ==
    \/ handleInputChange("techlogNumber", "TL-002")
    \/ handleInputChange("aircraftRegistration", "5h-tcb")
    \/ handleInputChange("pilotName", "B. Jones")
    \/ handleSectorChange(1, "departure", "HTDA")
    \/ handleSectorChange(1, "arrival", "KSEA")
    \/ \E value \in EditedTimeValues : handleTimeChange(1, "takeoffTime", value)
    \/ \E value \in EditedTimeValues : handleTimeChange(1, "landingTime", value)
    \/ handleSubmit

SpecTimedEntry == Init /\ [][TimedEntryNext]_vars

(* Sparse data: entries read from localStorage with an empty sector list   *)
(* (loadFromLocalStorage takes the stored JSON as it is)                   *)

SparseDates == {Today - 2, Today - 1, Today}

SparseEntries ==
    {StoredEntry(date, "A. Smith", "", ss) : date \in SparseDates, ss \in {LongDay, <<>>}}
      \cup {StoredEntry(Today, "B. Jones", "A. Smith", <<>>)}

InitSparse == \E entries \in BoundedSeq(SparseEntries, MaxSparseEntries) : InitStored(entries)

SpecSparse == InitSparse /\ [][DashboardNext]_vars

(* Sector times: the form's rows with a range of times of day              *)

TimeValues == {NoTime, <<0, 15>>, <<6, 10>>, <<23, 30>>}

TimesNext ==
    \/ \E index \in 1..MaxSectorRows, value \in TimeValues :
         handleTimeChange(index, "takeoffTime", value)
    \/ \E index \in 1..MaxSectorRows, value \in TimeValues :
         handleTimeChange(index, "landingTime", value)
    \/ handleAddSector
    \/ \E index \in 1..MaxSectorRows : handleRemoveSector(index)

SpecTimes == Init /\ [][TimesNext]_vars

(* Edges of the day: entries as the form stores them, on adjacent dates,   *)
(* flown from the first to the last minute of the day or across midnight   *)

EdgeDates == {Today - 2, Today - 1, Today}

\* a sector taking off at 00:00 and landing at 23:59
FullDay == <<StoredSector("HTDA", "KSEA", <<0, 0>>, <<23, 59>>)>>

EdgeEntries ==
    {StoredEntry(date, "A. Smith", "", ss) :
       date \in EdgeDates, ss \in {FullDay, NightFlight}}
      \cup {StoredEntry(Today, "B. Jones", "A. Smith", FullDay)}

InitEdge == \E entries \in BoundedSeq(EdgeEntries, MaxEdgeEntries) : InitStored(entries)

SpecEdge == InitEdge /\ [][DashboardNext]_vars

(* Malformed times: rows given a string that is not a time of day          *)

MalformedTimeValues == {NoTime, <<6, 10>>, <<25, 0>>}

MalformedNext ==
    \/ \E index \in 1..MaxSectorRows, value \in MalformedTimeValues :
         handleTimeChange(index, "takeoffTime", value)
    \/ \E index \in 1..MaxSectorRows, value \in MalformedTimeValues :
         handleTimeChange(index, "landingTime", value)
    \/ handleAddSector
    \/ \E index \in 1..MaxSectorRows : handleRemoveSector(index)

SpecMalformed == Init /\ [][MalformedNext]_vars

-----------------------------------------------------------------------------
(* Properties of the window statistics                                     *)

RECURSIVE SetSum(_, _)
\* the sum of f[x] over the finite set S
SetSum(S, f) ==
    IF S = {} THEN 0
    ELSE LET x == CHOOSE y \in S : TRUE IN f[x] + SetSum(S \ {x}, f)

StatsOf(pilotName) == calculatePilotStats(pilotName, techlogEntries, now)

\* the dashboard holds the pilot's statistics as computed at this instant
StatsLoaded(pilotName) ==
    /\ pilotName \in DOMAIN pilotStats
    /\ pilotStats[pilotName] = StatsOf(pilotName)

\* the stored entries (by index) that name the pilot and are dated within
\* the minutes before now, both ends included
WindowEntries(pilotName, minutes) ==
    {i \in 1..Len(techlogEntries) :
       /\ \/ techlogEntries[i].pilotName = pilotName
          \/ techlogEntries[i].coPilotName = pilotName
       /\ techlogEntries[i].date * 1440 >= now - minutes
       /\ techlogEntries[i].date * 1440 <= now}

EntryFlightTime(i) ==
    LET ss == techlogEntries[i].sectors
    IN  SetSum(1..Len(ss), [k \in 1..Len(ss) |-> ss[k].flightTime])

\* C1: for every pilot the flight time of the 7 day window is at most that
\* of the 28 day window, which is at most that of the 365 day window.
C1_WindowMonotonicity ==
    \A pilotName \in PilotNames :
      LET stats == StatsOf(pilotName)
      IN  /\ stats.flightTime7Days <= stats.flightTime28Days
          /\ stats.flightTime28Days <= stats.flightTime365Days

\* a pilot with flight time in the 7 day window, more in the 28 day window
\* and still more in the 365 day window
C1_Witness ==
    \E pilotName \in PilotNames :
      LET stats == StatsOf(pilotName)
      IN  /\ StatsLoaded(pilotName)
          /\ 0 < stats.flightTime7Days
          /\ stats.flightTime7Days < stats.flightTime28Days
          /\ stats.flightTime28Days < stats.flightTime365Days

\* C2: each of the seven exceedance flags is set exactly when its total is
\* strictly above its limit: 34, 100 and 1000 hours of flight time and 55,
\* 190 and 1800 hours of duty time over 7, 28 and 365 days, and 10 sectors
\* over 24 hours.
C2_ExceedanceBoundary ==
    \A pilotName \in PilotNames :
      LET stats == StatsOf(pilotName)
          day == WindowEntries(pilotName, 1440)
          sectors24Hours ==
            SetSum(day, [i \in day |-> Len(techlogEntries[i].sectors)])
      IN  /\ stats.exceedances.flightTime7Days <=> stats.flightTime7Days > 34 * 100
          /\ stats.exceedances.flightTime28Days <=> stats.flightTime28Days > 100 * 100
          /\ stats.exceedances.flightTime365Days <=> stats.flightTime365Days > 1000 * 100
          /\ stats.exceedances.dutyTime7Days <=> stats.dutyTime7Days > 55 * 60
          /\ stats.exceedances.dutyTime28Days <=> stats.dutyTime28Days > 190 * 60
          /\ stats.exceedances.dutyTime365Days <=> stats.dutyTime365Days > 1800 * 60
          /\ stats.exceedances.sectors24Hours <=> sectors24Hours > 10

\* a pilot whose 7 day duty time is exactly 55 hours, not flagged, while the
\* 7 day flight time is above 34 hours, flagged
C2_Witness ==
    LET stats == StatsOf("A. Smith")
    IN  /\ StatsLoaded("A. Smith")
        /\ stats.dutyTime7Days = 55 * 60
        /\ ~stats.exceedances.dutyTime7Days
        /\ stats.flightTime7Days > 34 * 100
        /\ stats.exceedances.flightTime7Days

\* C3: for each window of 7, 28 and 365 days the flight time, duty time and
\* sector totals are the sums over exactly the entries that name the pilot
\* as pilot or co-pilot and are dated from now minus the window to now, both
\* ends included; an entry dated after now is in no window.
C3_WindowSelection ==
    \A pilotName \in PilotNames :
      LET stats == StatsOf(pilotName)
          Flight(W) == SetSum(W, [i \in W |-> EntryFlightTime(i)])
          Duty(W) == SetSum(W, [i \in W |-> calculateDutyTime(techlogEntries[i].sectors)])
          Count(W) == SetSum(W, [i \in W |-> Len(techlogEntries[i].sectors)])
          W7 == WindowEntries(pilotName, 7 * 1440)
          W28 == WindowEntries(pilotName, 28 * 1440)
          W365 == WindowEntries(pilotName, 365 * 1440)
      IN  /\ stats.flightTime7Days = Flight(W7)
          /\ stats.flightTime28Days = Flight(W28)
          /\ stats.flightTime365Days = Flight(W365)
          /\ stats.dutyTime7Days = Duty(W7)
          /\ stats.dutyTime28Days = Duty(W28)
          /\ stats.dutyTime365Days = Duty(W365)
          /\ stats.sectors7Days = Count(W7)
          /\ stats.sectors28Days = Count(W28)
          /\ stats.sectors365Days = Count(W365)
          /\ \A i \in W365 : techlogEntries[i].date * 1440 <= now

\* at midnight: an entry of the pilot dated exactly seven days ago, one
\* flown as co-pilot today and one dated tomorrow; the 7 day window holds
\* the first two only
C3_Witness ==
    /\ now = Today * 1440
    /\ StatsLoaded("A. Smith")
    /\ \E i, j, k \in 1..Len(techlogEntries) :
         /\ techlogEntries[i].date = Today - 7
         /\ techlogEntries[i].pilotName = "A. Smith"
         /\ techlogEntries[j].date = Today
         /\ techlogEntries[j].coPilotName = "A. Smith"
         /\ techlogEntries[k].date = Today + 1
         /\ techlogEntries[k].pilotName = "A. Smith"
         /\ StatsOf("A. Smith").sectors7Days =
              Len(techlogEntries[i].sectors) + Len(techlogEntries[j].sectors)
         /\ StatsOf("A. Smith").sectors7Days > 0

\* minutes after midnight of a time of day
MinuteOfDay(t) == t[1] * 60 + t[2]

C5_DutyNonNegative ==
    /\ \A e \in 1..Len(techlogEntries) :
         calculateDutyTime(techlogEntries[e].sectors) >= 0
    /\ \A pilotName \in PilotNames :
         LET stats == StatsOf(pilotName)
         IN  /\ stats.dutyTime7Days >= 0
             /\ stats.dutyTime28Days >= 0
             /\ stats.dutyTime365Days >= 0

\* a pilot whose only entry of the last 7 days is a sector landing at a time
\* of day before its takeoff: the duty total is zero
C5_Witness ==
    /\ \E e \in 1..Len(techlogEntries) :
         LET ss == techlogEntries[e].sectors
         IN  /\ techlogEntries[e].pilotName = "B. Jones"
             /\ techlogEntries[e].date = Today
             /\ Len(ss) = 1
             /\ MinuteOfDay(ss[1].landingTime) < MinuteOfDay(ss[1].takeoffTime)
             /\ calculateDutyTime(ss) = 0
    /\ StatsLoaded("B. Jones")
    /\ StatsOf("B. Jones").sectors7Days = 1
    /\ StatsOf("B. Jones").dutyTime7Days = 0

(* Properties of the form's flight time                                     *)

\* C6: for a row with both times given the flight time is landing minus
\* takeoff when the landing is not before the takeoff and landing plus 24
\* hours minus takeoff otherwise, never negative; takeoff 23:30 with landing
\* 00:15 gives 0.75 hours.
C6_OvernightWrap ==
    \A index \in 1..Len(sectors) :
      LET row == sectors[index]
          takeoff == MinuteOfDay(row.takeoffTime)
          landing == MinuteOfDay(row.landingTime)
          expected == IF landing >= takeoff THEN landing - takeoff
                      ELSE landing + 24 * 60 - takeoff
          flightTime == formCalculateFlightTime(row.takeoffTime, row.landingTime)
      IN  (row.takeoffTime # <<>> /\ row.landingTime # <<>>) =>
            /\ flightTime = expected
            /\ flightTime >= 0
            /\ row.flightTime = RoundToCentiHours(flightTime)
            /\ (row.takeoffTime = <<23, 30>> /\ row.landingTime = <<0, 15>>) =>
                 (flightTime = 45 /\ row.flightTime = 75)

\* a row edited to takeoff 23:30 and landing 00:15, showing 0.75 hours,
\* beside a row landing after its takeoff
C6_Witness ==
    \E index, other \in 1..Len(sectors) :
      /\ sectors[index].takeoffTime = <<23, 30>>
      /\ sectors[index].landingTime = <<0, 15>>
      /\ sectors[index].flightTime = 75
      /\ sectors[other].takeoffTime = <<0, 15>>
      /\ sectors[other].landingTime = <<6, 10>>
      /\ sectors[other].flightTime = 592

-----------------------------------------------------------------------------
(* Properties of the rest periods                                          *)

RestOf(pilotName) == getPilotRestCompliance(pilotName, techlogEntries, now)

\* the dashboard shows the pilot's rest compliance as computed at this instant
RestLoaded(pilotName) ==
    /\ pilotName \in DOMAIN restCompliance
    /\ restCompliance[pilotName] = RestOf(pilotName)

\* the stored entries (by index) that name the pilot on the date
DutyEntries(pilotName, date) ==
    {i \in 1..Len(techlogEntries) :
       /\ \/ techlogEntries[i].pilotName = pilotName
          \/ techlogEntries[i].coPilotName = pilotName
       /\ techlogEntries[i].date = date}

DutyDates(pilotName) ==
    {techlogEntries[i].date : i \in {j \in 1..Len(techlogEntries) :
                                        \/ techlogEntries[j].pilotName = pilotName
                                        \/ techlogEntries[j].coPilotName = pilotName}}

\* the rest period between two duty dates of the pilot, from the day's last
\* stored sector to the next day's first stored sector
ExpectedRest(pilotName, fromDate, toDate) ==
    LET lastEntry == CHOOSE i \in DutyEntries(pilotName, fromDate) :
                       \A j \in DutyEntries(pilotName, fromDate) : i >= j
        firstEntry == CHOOSE i \in DutyEntries(pilotName, toDate) :
                        \A j \in DutyEntries(pilotName, toDate) : i <= j
        lastSector == techlogEntries[lastEntry].sectors[Len(techlogEntries[lastEntry].sectors)]
        firstSector == techlogEntries[firstEntry].sectors[1]
        start == fromDate * 1440 + MinuteOfDay(lastSector.landingTime)
                   - TimezoneOffsetMinutes + 15
        end == toDate * 1440 + MinuteOfDay(firstSector.takeoffTime)
                 - TimezoneOffsetMinutes + 45
    IN  [fromDate |-> fromDate, toDate |-> toDate,
         start |-> start, end |-> end, hours |-> end - start]

\* the pairs of the pilot's duty dates with no duty date between them
AdjacentDutyDates(pilotName) ==
    {pair \in DutyDates(pilotName) \X DutyDates(pilotName) :
       /\ pair[1] < pair[2]
       /\ \A d \in DutyDates(pilotName) : ~(pair[1] < d /\ d < pair[2])}

RestFacts(r) ==
    [fromDate |-> r.fromDate, toDate |-> r.toDate,
     start |-> r.start, end |-> r.end, hours |-> r.hours]

\* C7: the rest periods of the full history are, in ascending date order,
\* one for each pair of adjacent duty days of the pilot: from the earlier
\* day's date at its last sector's landing time plus 15 minutes to the later
\* day's date at its first sector's takeoff time plus 45 minutes, lasting
\* the end minus the start.
C7_RestPeriods ==
    \A pilotName \in PilotNames :
      LET details == RestPeriodDetails(pilotName, techlogEntries)
      IN  /\ {RestFacts(details[k]) : k \in 1..Len(details)} =
               {ExpectedRest(pilotName, pair[1], pair[2]) :
                  pair \in AdjacentDutyDates(pilotName)}
          /\ \A k \in 1..(Len(details) - 1) :
               details[k].toDate = details[k + 1].fromDate
          /\ RestOf(pilotName).totalRestPeriods =
               Cardinality(AdjacentDutyDates(pilotName))

\* three duty days of a pilot stored out of chronological order, the middle
\* one with two sectors stored latest first, giving two rest periods
C7_Witness ==
    /\ RestLoaded("A. Smith")
    /\ Len(techlogEntries) = 3
    /\ techlogEntries[1].date > techlogEntries[3].date
    /\ techlogEntries[3].date > techlogEntries[2].date
    /\ Len(techlogEntries[3].sectors) = 2
    /\ \A i \in 1..3 : techlogEntries[i].pilotName = "A. Smith"
    /\ RestOf("A. Smith").totalRestPeriods = 2

\* C8: a rest period is compliant exactly when it lasts at least 36 hours;
\* one of exactly 36 hours is compliant and a shorter one is not.
C8_RestBoundary ==
    \A pilotName \in PilotNames :
      LET details == RestPeriodDetails(pilotName, techlogEntries)
          recent == RestOf(pilotName).recentRestPeriodDetails
      IN  /\ \A k \in 1..Len(details) :
               details[k].isCompliant <=> details[k].hours >= 36 * 60
          /\ \A k \in 1..Len(recent) :
               recent[k].isCompliant <=> recent[k].hours >= 36 * 60
          /\ RestOf(pilotName).compliantRestPeriods =
               Cardinality({k \in 1..Len(details) : details[k].hours >= 36 * 60})
          /\ RestOf(pilotName).recentCompliantRestPeriods =
               Cardinality({k \in 1..Len(recent) : recent[k].hours >= 36 * 60})

\* one pilot with a recent rest of exactly 36 hours, compliant, and another
\* with a recent rest one minute shorter, not compliant
C8_Witness ==
    /\ RestLoaded("A. Smith")
    /\ RestLoaded("B. Jones")
    /\ LET a == RestOf("A. Smith").recentRestPeriodDetails
           b == RestOf("B. Jones").recentRestPeriodDetails
       IN  /\ Len(a) = 1 /\ a[1].hours = 36 * 60 /\ a[1].isCompliant
           /\ Len(b) = 1 /\ b[1].hours = 36 * 60 - 1 /\ ~b[1].isCompliant

\* C9: isFullyCompliant is true exactly when there is no recent rest period
\* or every recent rest period is compliant; one recent rest period that is
\* not compliant makes it false however many others are.
C9_FullyCompliant ==
    \A pilotName \in PilotNames :
      LET rest == RestOf(pilotName)
          recent == rest.recentRestPeriodDetails
      IN  /\ rest.recentRestPeriods = Len(recent)
          /\ rest.isFullyCompliant <=>
               \/ Len(recent) = 0
               \/ \A k \in 1..Len(recent) : recent[k].hours >= 36 * 60

\* a pilot with two recent rest periods, one compliant and one not, who is
\* not fully compliant
C9_Witness ==
    /\ RestLoaded("A. Smith")
    /\ LET rest == RestOf("A. Smith")
       IN  /\ rest.recentRestPeriods = 2
           /\ rest.recentCompliantRestPeriods = 1
           /\ ~rest.isFullyCompliant

\* C10: the recent rest periods the dashboard shows are exactly the rest
\* periods of the full history whose later day is dated within the seven
\* days before now, whatever the date of the earlier day.
C10_RecentView ==
    \A pilotName \in PilotNames :
      LET details == RestPeriodDetails(pilotName, techlogEntries)
          recent == restCompliance[pilotName].recentRestPeriodDetails
      IN  RestLoaded(pilotName) =>
          {recent[k] : k \in 1..Len(recent)} =
            {details[k] : k \in {j \in 1..Len(details) :
                                   /\ details[j].toDate * 1440 >= now - 7 * 1440
                                   /\ details[j].toDate * 1440 <= now}}

-----------------------------------------------------------------------------
(* Properties of the daily summaries                                       *)

DetailsOf(pilotName) == getPilotDailyDetails(pilotName, techlogEntries)

RECURSIVE ConcatSectors(_, _)
\* the sectors of the stored entries with an index in S from index i on, in
\* stored order
ConcatSectors(i, S) ==
    IF i > Len(techlogEntries) THEN <<>>
    ELSE (IF i \in S THEN techlogEntries[i].sectors ELSE <<>>)
           \o ConcatSectors(i + 1, S)

\* C11: the daily details of a pilot hold exactly one summary for each date
\* the pilot has entries on; its sectors are the sectors of those entries in
\* stored entry order and sector order within an entry, and their number is
\* the sum of the entries' sector counts.
C11_GroupingStability ==
    \A pilotName \in PilotNames :
      LET days == DetailsOf(pilotName)
      IN  /\ {days[k].date : k \in 1..Len(days)} = DutyDates(pilotName)
          /\ Len(days) = Cardinality(DutyDates(pilotName))
          /\ \A k \in 1..Len(days) :
               LET S == DutyEntries(pilotName, days[k].date)
               IN  /\ days[k].sectors = ConcatSectors(1, S)
                   /\ Len(days[k].sectors) =
                        SetSum(S, [i \in S |-> Len(techlogEntries[i].sectors)])

\* a pilot with two entries on one date, stored with an entry of another
\* date between them, the first of the two with two sectors: one summary of
\* three sectors
C11_Witness ==
    /\ RestLoaded("A. Smith")
    /\ Len(techlogEntries) = 3
    /\ techlogEntries[1].date = Today /\ techlogEntries[1].sectors = ExampleDay1
    /\ techlogEntries[2].date = Today + 2
    /\ techlogEntries[3].date = Today /\ techlogEntries[3].sectors = ReturnFlight
    /\ \A i \in 1..3 : techlogEntries[i].pilotName = "A. Smith"
    /\ Len(DetailsOf("A. Smith")) = 2
    /\ DetailsOf("A. Smith")[2].sectors = ExampleDay1 \o ReturnFlight

\* C12: a day is overnight unless the last sector of its sector list arrives
\* at HTDA, whatever the arrivals of the sectors before it; the day
\* 2024-01-01 of KJFK-KLAX 07:00-10:30 and KLAX-KSEA 11:30-13:45 is
\* overnight with 5.75 hours of flight time.
C12_OvernightFlag ==
    \A pilotName \in PilotNames :
      LET days == DetailsOf(pilotName)
      IN  \A k \in 1..Len(days) :
            LET ss == days[k].sectors
            IN  /\ days[k].isOvernight <=> ss[Len(ss)].arrival # "HTDA"
                /\ (days[k].date = Today /\ ss = ExampleDay1) =>
                     (days[k].isOvernight /\ days[k].totalFlightTime = 575)

\* the day 2024-01-01 ending at KSEA, overnight with 5.75 hours, beside a
\* day that passes through KJFK and ends at HTDA, not overnight
C12_Witness ==
    /\ RestLoaded("A. Smith")
    /\ \E k, j \in 1..Len(DetailsOf("A. Smith")) :
         LET day == DetailsOf("A. Smith")[k]
             other == DetailsOf("A. Smith")[j]
         IN  /\ day.date = Today /\ day.sectors = ExampleDay1
             /\ day.isOvernight /\ day.totalFlightTime = 575
             /\ other.sectors = ExampleDay3 \o ReturnFlight
             /\ ~other.isOvernight

-----------------------------------------------------------------------------
(* Properties of the form and the storage                                  *)

\* C13: every stored entry has a techlog number, an aircraft registration,
\* a pilot name and at least one sector, and every sector of a stored entry
\* has its departure, arrival, takeoff time and landing time.
C13_StoredEntriesValid ==
    \A i \in 1..Len(techlogEntries) :
      LET entry == techlogEntries[i]
      IN  /\ entry.techlogNumber # ""
          /\ entry.aircraftRegistration # ""
          /\ entry.pilotName # ""
          /\ Len(entry.sectors) >= 1
          /\ \A k \in 1..Len(entry.sectors) :
               /\ entry.sectors[k].departure # ""
               /\ entry.sectors[k].arrival # ""
               /\ entry.sectors[k].takeoffTime # <<>>
               /\ entry.sectors[k].landingTime # <<>>

\* an entry stored by a submission that followed one rejected for having no
\* valid sector
C13_Witness ==
    /\ entryAddedCalls = 1
    /\ Len(techlogEntries) = 1
    /\ Len(techlogEntries[1].sectors) = 1
    /\ lastAlert = "Please add at least one valid sector"

\* the stored entries (by index) of the aircraft
AircraftEntriesOf(registration) ==
    {i \in 1..Len(techlogEntries) :
       techlogEntries[i].aircraftRegistration = registration}

\* C14: for every registration the aircraft statistics give as cycles the
\* number of sectors, and as flight hours the sum of the sector flight
\* times, of exactly the stored entries of that registration.
C14_AircraftStats ==
    \A registration \in StoredRegistrations :
      LET stats == calculateAircraftStats(registration, techlogEntries)
          S == AircraftEntriesOf(registration)
      IN  /\ stats.registration = registration
          /\ stats.totalCycles = SetSum(S, [i \in S |-> Len(techlogEntries[i].sectors)])
          /\ stats.totalFlightHours = SetSum(S, [i \in S |-> EntryFlightTime(i)])

\* after a submission for 5H-ABC on top of a two-sector entry of 5H-ABC and
\* an entry of 5H-TCB, the rollup of 5H-ABC counts three cycles of the four
\* stored sectors
C14_Witness ==
    /\ entryAddedCalls = 1
    /\ Len(techlogEntries) = 3
    /\ techlogEntries[3].aircraftRegistration = "5H-ABC"
    /\ Cardinality(AircraftEntriesOf("5H-ABC")) = 2
    /\ Cardinality(AircraftEntriesOf("5H-TCB")) = 1
    /\ \E k \in 1..Len(aircraftStats) :
         /\ aircraftStats[k] = calculateAircraftStats("5H-ABC", techlogEntries)
         /\ aircraftStats[k].totalCycles = 3
         /\ aircraftStats[k].totalFlightHours = 225 + 350 + 75

-----------------------------------------------------------------------------
(* Properties of the documented examples                                   *)

\* C15: the duty time of the sectors of an entry is the time from the
\* earliest takeoff to the latest landing plus one hour.
C15_DutyPlusOneHour ==
    \A e \in 1..Len(techlogEntries) :
      LET ss == techlogEntries[e].sectors
          takeoffs == {MinuteOfDay(ss[k].takeoffTime) : k \in 1..Len(ss)}
          landings == {MinuteOfDay(ss[k].landingTime) : k \in 1..Len(ss)}
          earliest == CHOOSE t \in takeoffs : \A u \in takeoffs : t <= u
          latest == CHOOSE t \in landings : \A u \in landings : t >= u
      IN  (Len(ss) > 0 /\ StatsLoaded(techlogEntries[e].pilotName)) =>
            calculateDutyTime(ss) = (latest - earliest) + 60

\* the rest periods of the pilot from 2024-01-01, the last sector of that
\* day landing at 13:45, to 2024-01-03, the first sector of that day taking
\* off at 06:00
ExampleRests(pilotName) ==
    LET days == SortedDailyDetails(pilotName, techlogEntries)
        pairs == {k \in 1..(Len(days) - 1) :
                    /\ days[k].date = Today
                    /\ days[k].sectors[Len(days[k].sectors)].landingTime = <<13, 45>>
                    /\ days[k + 1].date = Today + 2
                    /\ days[k + 1].sectors[1].takeoffTime = <<6, 0>>}
        details == RestPeriodDetails(pilotName, techlogEntries)
    IN  {details[k] : k \in pairs}

\* 2024-01-01 at 13:45 plus 15 minutes and 2024-01-03 at 06:00 plus 45
\* minutes, local time
ExampleRestStart == Today * 1440 + 13 * 60 + 45 - TimezoneOffsetMinutes + 15
ExampleRestEnd == (Today + 2) * 1440 + 6 * 60 - TimezoneOffsetMinutes + 45

\* C16 as stated: the rest period of the example runs from 13:45 plus 15
\* minutes on day 1 to 06:00 plus 45 minutes on day 3, lasts 40.5 hours and
\* is compliant.
C16_ExampleRestAsStated ==
    \A r \in ExampleRests("A. Smith") :
      /\ r.start = ExampleRestStart
      /\ r.end = ExampleRestEnd
      /\ r.hours = 40 * 60 + 30
      /\ r.isCompliant

\* C16: the rest period of the example runs from 13:45 plus 15 minutes on
\* day 1 to 06:00 plus 45 minutes on day 3, lasts 40.75 hours and is
\* compliant.
C16_ExampleRest ==
    \A r \in ExampleRests("A. Smith") :
      /\ r.start = ExampleRestStart
      /\ r.end = ExampleRestEnd
      /\ r.hours = 40 * 60 + 45
      /\ r.isCompliant

\* the dashboard showing the pilot with exactly the two entries of the
\* example, and their single rest period
C16_Witness ==
    /\ RestLoaded("A. Smith")
    /\ techlogEntries = <<StoredEntry(Today, "A. Smith", "", ExampleDay1),
                          StoredEntry(Today + 2, "A. Smith", "", ExampleDay3)>>
    /\ Cardinality(ExampleRests("A. Smith")) = 1
    /\ restCompliance["A. Smith"].totalRestPeriods = 1
    /\ restCompliance["A. Smith"].compliantRestPeriods = 1

-----------------------------------------------------------------------------
(* Properties of degenerate input                                          *)

\* C17: for a row with a time that is empty or cannot be parsed the form's
\* flight time calculation gives zero, and the flight time of every row is
\* a number that is not negative.
C17_MalformedTimeIsZero ==
    \A index \in 1..Len(sectors) :
      LET row == sectors[index]
          degenerate == \/ ~IsTimeOfDay(row.takeoffTime)
                        \/ ~IsTimeOfDay(row.landingTime)
      IN  /\ degenerate =>
               formCalculateFlightTime(row.takeoffTime, row.landingTime) = 0
          /\ row.flightTime # NaN
          /\ row.flightTime >= 0

\* the stored entries that have a sector
EntriesWithSectors ==
    SeqFilter(techlogEntries, LAMBDA entry : Len(entry.sectors) > 0)

\* C18: the flight time and the duty time of an entry without sectors are
\* zero, and such an entry adds nothing to any windowed flight time, duty
\* time or sector total of a pilot.
C18_EmptySectorList ==
    /\ \A i \in 1..Len(techlogEntries) :
         Len(techlogEntries[i].sectors) = 0 =>
           /\ calculateFlightTime(techlogEntries[i].sectors) = 0
           /\ calculateDutyTime(techlogEntries[i].sectors) = 0
    /\ \A pilotName \in PilotNames :
         StatsOf(pilotName) = calculatePilotStats(pilotName, EntriesWithSectors, now)

\* the dashboard showing a pilot with an entry of one sector and an entry of
\* none in the last 7 days: one sector and the duty of the one entry
C18_Witness ==
    /\ StatsLoaded("A. Smith")
    /\ \E i, j \in 1..Len(techlogEntries) :
         /\ techlogEntries[i].pilotName = "A. Smith"
         /\ techlogEntries[i].sectors = <<>>
         /\ techlogEntries[j].pilotName = "A. Smith"
         /\ techlogEntries[j].sectors = LongDay
    /\ pilotStats["A. Smith"].sectors7Days = 1
    /\ pilotStats["A. Smith"].dutyTime7Days = 12 * 60
    /\ pilotStats["A. Smith"].flightTime7Days = 1250

\* the sectors of the pilot's day
DaySectors(pilotName, date) == ConcatSectors(1, DutyEntries(pilotName, date))

\* the adjacent duty dates of the pilot that both have a sector
FlownPairs(pilotName) ==
    {pair \in AdjacentDutyDates(pilotName) :
       /\ Len(DaySectors(pilotName, pair[1])) > 0
       /\ Len(DaySectors(pilotName, pair[2])) > 0}

\* minutes from the last sector's landing of the earlier day plus 15 to the
\* first sector's takeoff of the later day plus 45
FlownRest(pilotName, pair) ==
    LET earlier == DaySectors(pilotName, pair[1])
        later == DaySectors(pilotName, pair[2])
    IN  (pair[2] * 1440 + MinuteOfDay(later[1].takeoffTime) + 45)
          - (pair[1] * 1440 + MinuteOfDay(earlier[Len(earlier)].landingTime) + 15)

\* C19: an adjacent pair of days of which one has no sector gives no rest
\* period: the rest periods, in the full history and in the recent view, are
\* those of the adjacent pairs of which both days have a sector, and only
\* they count towards the totals, the compliant counts and full compliance.
C19_IncompletePairSkipped ==
    \A pilotName \in PilotNames :
      LET rest == RestOf(pilotName)
          details == RestPeriodDetails(pilotName, techlogEntries)
          recent == rest.recentRestPeriodDetails
          short == {pair \in FlownPairs(pilotName) :
                      FlownRest(pilotName, pair) < 36 * 60}
      IN  /\ {<<details[k].fromDate, details[k].toDate>> : k \in 1..Len(details)}
               = FlownPairs(pilotName)
          /\ {<<recent[k].fromDate, recent[k].toDate>> : k \in 1..Len(recent)}
               = FlownPairs(pilotName)
          /\ rest.totalRestPeriods = Cardinality(FlownPairs(pilotName))
          /\ rest.recentRestPeriods = Cardinality(FlownPairs(pilotName))
          /\ rest.compliantRestPeriods = Cardinality(FlownPairs(pilotName) \ short)
          /\ rest.recentCompliantRestPeriods = Cardinality(FlownPairs(pilotName) \ short)
          /\ rest.isFullyCompliant <=> short = {}

\* the dashboard showing a pilot with three days of which the middle one has
\* no sector: no rest period, and fully compliant
C19_Witness ==
    /\ RestLoaded("A. Smith")
    /\ DutyDates("A. Smith") = SparseDates
    /\ Len(DaySectors("A. Smith", Today - 2)) > 0
    /\ Len(DaySectors("A. Smith", Today - 1)) = 0
    /\ Len(DaySectors("A. Smith", Today)) > 0
    /\ restCompliance["A. Smith"].totalRestPeriods = 0
    /\ restCompliance["A. Smith"].recentRestPeriods = 0
    /\ restCompliance["A. Smith"].isFullyCompliant

-----------------------------------------------------------------------------
(* Properties of the overnight counts                                      *)

\* the duty dates of the pilot whose last sector arrives away from HTDA
OvernightDates(pilotName) ==
    {date \in DutyDates(pilotName) :
       LET ss == DaySectors(pilotName, date)
       IN  Len(ss) > 0 /\ ss[Len(ss)].arrival # "HTDA"}

\* C20: the total overnights shown for a pilot is the number of the pilot's
\* overnight days, and the recent overnights the number of those dated not
\* earlier than seven days before now and not later than now.
C20_OvernightCount ==
    \A pilotName \in PilotNames :
      RestLoaded(pilotName) =>
        /\ restCompliance[pilotName].totalOvernights =
             Cardinality(OvernightDates(pilotName))
        /\ restCompliance[pilotName].recentOvernights =
             Cardinality({date \in OvernightDates(pilotName) :
                            /\ date * 1440 >= now - 7 * 1440
                            /\ date * 1440 <= now})
        /\ restCompliance[pilotName].recentOvernights
             <= restCompliance[pilotName].totalOvernights

-----------------------------------------------------------------------------
(* Properties of the stored rollup and the stored entry list               *)

\* the records (by index) the stored rollup holds for the registration
RollupRecordsOf(registration) ==
    {k \in 1..Len(aircraftStats) : aircraftStats[k].registration = registration}

\* C21: in every state reached by submissions and clearAllData, each
\* registration that has stored entries has a stored rollup record, and that
\* record's totalCycles and totalFlightHours are those calculateAircraftStats
\* gives for the registration on the current stored entries.
C21_RollupConsistent ==
    \A i \in 1..Len(techlogEntries) :
      LET registration == techlogEntries[i].aircraftRegistration
          expected == calculateAircraftStats(registration, techlogEntries)
      IN  /\ RollupRecordsOf(registration) # {}
          /\ \A k \in RollupRecordsOf(registration) :
               /\ aircraftStats[k].totalCycles = expected.totalCycles
               /\ aircraftStats[k].totalFlightHours = expected.totalFlightHours

\* two submissions for 5H-ABC on top of stored entries of 5H-ABC and 5H-TCB:
\* the record of 5H-ABC was replaced twice and counts its three entries
C21_Witness ==
    /\ entryAddedCalls = 2
    /\ Len(techlogEntries) = 4
    /\ Cardinality(AircraftEntriesOf("5H-ABC")) = 3
    /\ Cardinality(AircraftEntriesOf("5H-TCB")) = 1
    /\ \E k \in RollupRecordsOf("5H-ABC") : aircraftStats[k].totalCycles >= 3

-----------------------------------------------------------------------------
(* Duty time of sectors landing after midnight                             *)

\* C22: a sector whose landing time of day is earlier than its takeoff time
\* of day lands on the following calendar day for calculateDutyTime: the duty
\* of a list holding such a sector runs from the earliest takeoff plus 45
\* minutes to the latest landing so placed plus 15 minutes, and its end is
\* after its start.
C22_DutyOvernightWrap ==
    \A e \in 1..Len(techlogEntries) :
      LET ss == techlogEntries[e].sectors
          takeoffs == {MinuteOfDay(ss[k].takeoffTime) : k \in 1..Len(ss)}
          landings == {IF MinuteOfDay(ss[k].landingTime) < MinuteOfDay(ss[k].takeoffTime)
                       THEN MinuteOfDay(ss[k].landingTime) + MinutesPerDay
                       ELSE MinuteOfDay(ss[k].landingTime) : k \in 1..Len(ss)}
          earliest == CHOOSE t \in takeoffs : \A u \in takeoffs : t <= u
          latest == CHOOSE t \in landings : \A u \in landings : t >= u
      IN  (/\ StatsLoaded(techlogEntries[e].pilotName)
           /\ \E k \in 1..Len(ss) :
                MinuteOfDay(ss[k].landingTime) < MinuteOfDay(ss[k].takeoffTime))
          => /\ calculateDutyTime(ss) = (latest + 15) - (earliest + 45)
             /\ calculateDutyTime(ss) > 0

-----------------------------------------------------------------------------
(* Rest periods and the order in which sectors were stored                 *)

\* C23: the rest period between two adjacent duty days of a pilot starts 15
\* minutes after the latest landing among all sectors of the earlier day and
\* ends 45 minutes after the earliest takeoff among all sectors of the later
\* day, in whatever order the entries and sectors of the days were stored.
C23_RestFromLatestToEarliest ==
    \A pilotName \in PilotNames :
      LET details == RestPeriodDetails(pilotName, techlogEntries)
      IN  RestLoaded(pilotName) =>
            \A k \in 1..Len(details) :
              LET earlier == DaySectors(pilotName, details[k].fromDate)
                  later == DaySectors(pilotName, details[k].toDate)
                  landings == {MinuteOfDay(earlier[j].landingTime) : j \in 1..Len(earlier)}
                  takeoffs == {MinuteOfDay(later[j].takeoffTime) : j \in 1..Len(later)}
                  latest == CHOOSE t \in landings : \A u \in landings : t >= u
                  earliest == CHOOSE t \in takeoffs : \A u \in takeoffs : t <= u
              IN  /\ details[k].start =
                       details[k].fromDate * MinutesPerDay + latest
                         - TimezoneOffsetMinutes + 15
                  /\ details[k].end =
                       details[k].toDate * MinutesPerDay + earliest
                         - TimezoneOffsetMinutes + 45

-----------------------------------------------------------------------------
(* The 24 hour sector total                                                *)

\* takeoff and landing times the sectors of an entry are changed to
RetimeValues == {<<<<0, 0>>, <<23, 59>>>>, <<<<23, 30>>, <<0, 15>>>>}

\* the stored entries with every sector of entry e given the times
Retimed(e, times) ==
    LET ss == techlogEntries[e].sectors
        changed == SeqOf(Len(ss),
                         LAMBDA k : StoredSector(ss[k].departure, ss[k].arrival,
                                                 times[1], times[2]))
    IN  [techlogEntries EXCEPT ![e] = [@ EXCEPT !.sectors = changed]]

\* C24: the 24 hour sector total behind the sectors24Hours flag is the number
\* of sectors of the pilot's entries dated from now minus 24 hours to now,
\* both ends included; the entry date alone decides, so giving the sectors of
\* an entry other takeoff and landing times changes neither the 24 hour total
\* nor the 7, 28 and 365 day sector totals.
C24_SectorsByEntryDate ==
    \A pilotName \in PilotNames :
      LET W == WindowEntries(pilotName, 24 * MinutesPerHour)
          total == Sectors24Hours(pilotName, techlogEntries, now)
          stats == StatsOf(pilotName)
      IN  /\ total = SetSum(W, [i \in W |-> Len(techlogEntries[i].sectors)])
          /\ stats.exceedances.sectors24Hours
               <=> total > FLIGHT_TIME_LIMITS.MAX_SECTORS_24H
          /\ \A e \in 1..Len(techlogEntries), times \in RetimeValues :
               LET retimed == calculatePilotStats(pilotName, Retimed(e, times), now)
               IN  /\ Sectors24Hours(pilotName, Retimed(e, times), now) = total
                   /\ retimed.sectors7Days = stats.sectors7Days
                   /\ retimed.sectors28Days = stats.sectors28Days
                   /\ retimed.sectors365Days = stats.sectors365Days

\* one minute after midnight the dashboard shows a pilot with an entry dated
\* today, whose sector takes off later today, and an entry dated yesterday,
\* whose sector was flown within the last 24 hours: the total counts the
\* sector of today's entry only
C24_Witness ==
    /\ now = Today * MinutesPerDay + 1
    /\ StatsLoaded("A. Smith")
    /\ \E i, j \in 1..Len(techlogEntries) :
         /\ techlogEntries[i].pilotName = "A. Smith"
         /\ techlogEntries[i].date = Today
         /\ techlogEntries[i].sectors = LongDay
         /\ LocalInstant(Today, LongDay[1].takeoffTime) > now
         /\ techlogEntries[j].pilotName = "A. Smith"
         /\ techlogEntries[j].date = Today - 1
         /\ techlogEntries[j].sectors = LongDay
         /\ LocalInstant(Today - 1, LongDay[1].landingTime) > now - 24 * MinutesPerHour
    /\ Sectors24Hours("A. Smith", techlogEntries, now) = 1

-----------------------------------------------------------------------------
(* Rejected submissions                                                    *)

\* the form as it stands fails the validation of a submission
FormInvalid ==
    \/ formData.techlogNumber = ""
    \/ formData.aircraftRegistration = ""
    \/ formData.pilotName = ""
    \/ \A k \in 1..Len(sectors) :
         \/ sectors[k].departure = ""
         \/ sectors[k].arrival = ""
         \/ sectors[k].takeoffTime = NoTime
         \/ sectors[k].landingTime = NoTime

\* C25: a submission that fails validation (an empty techlog number,
\* aircraft registration or pilot name, or no sector row with all four
\* fields) leaves the stored entries and the stored rollup unchanged, does
\* not reset the form fields or the sector rows, and does not signal
\* onEntryAdded: while the form is invalid no step changes the storage or
\* the count of onEntryAdded calls, and the step that raises the alert
\* leaves the form as it was.
C25_RejectedSubmission ==
    [][/\ FormInvalid =>
            UNCHANGED <<techlogEntries, aircraftStats, entryAddedCalls>>
       /\ lastAlert' # lastAlert =>
            /\ FormInvalid
            /\ UNCHANGED <<techlogEntries, aircraftStats, formData, sectors,
                           entryAddedCalls>>]_vars

\* a submission rejected for its empty pilot name, the form holding a
\* techlog number, a registration and a complete sector row: the form is
\* still filled in, nothing was stored and onEntryAdded was not called
C25_Witness ==
    /\ lastAlert = "Please fill in all required fields"
    /\ formData.techlogNumber # ""
    /\ formData.aircraftRegistration # ""
    /\ formData.pilotName = ""
    /\ IsValidSector(sectors[1])
    /\ entryAddedCalls = 0
    /\ Len(techlogEntries) = 2
    /\ aircraftStats = RollupOf(techlogEntries)

\* no two records of the stored rollup carry the same registration
OneRecordPerRegistration ==
    \A k, j \in 1..Len(aircraftStats) :
      aircraftStats[k].registration = aircraftStats[j].registration => k = j

\* a step that changes the stored rollup empties it, or adds at its end a
\* record of a registration it did not hold, or replaces one record by a
\* record of the same registration at the same position; every other record
\* stays as and where it was
UpsertInPlace ==
    aircraftStats' # aircraftStats =>
      \/ aircraftStats' = <<>>
      \/ /\ Len(aircraftStats') = Len(aircraftStats) + 1
         /\ SubSeq(aircraftStats', 1, Len(aircraftStats)) = aircraftStats
         /\ \A k \in 1..Len(aircraftStats) :
              aircraftStats[k].registration
                # aircraftStats'[Len(aircraftStats')].registration
      \/ /\ Len(aircraftStats') = Len(aircraftStats)
         /\ \E k \in 1..Len(aircraftStats) :
              /\ aircraftStats'[k].registration = aircraftStats[k].registration
              /\ \A j \in 1..Len(aircraftStats) :
                   j # k => aircraftStats'[j] = aircraftStats[j]

\* C26: whatever submissions (addTechlogEntry then updateAircraftStats) and
\* clearAllData calls were made, the stored aircraftStats list holds at most
\* one record per registration; an upsert of a registration already present
\* replaces its record in place and leaves every other record unchanged.
C26_UpsertKeepsOneRecord ==
    /\ []OneRecordPerRegistration
    /\ [][UpsertInPlace]_vars

\* two submissions for 5H-TCB with records of 5H-TCB and 5H-ABC stored: the
\* record of 5H-TCB is still the first and counts the two new cycles, the
\* record of 5H-ABC is still the second with its one cycle
C26_Witness ==
    /\ entryAddedCalls = 2
    /\ Len(techlogEntries) = 4
    /\ Len(aircraftStats) = 2
    /\ aircraftStats[1].registration = "5H-TCB"
    /\ aircraftStats[1].totalCycles = 3
    /\ aircraftStats[2].registration = "5H-ABC"
    /\ aircraftStats[2].totalCycles = 1

-----------------------------------------------------------------------------
(* The stored entry list under submissions                                 *)

\* the rows of the form with all four fields populated, in form order
CompleteRows ==
    LET complete == IndexFilter(Len(sectors),
                                LAMBDA k : /\ sectors[k].departure # ""
                                           /\ sectors[k].arrival # ""
                                           /\ sectors[k].takeoffTime # NoTime
                                           /\ sectors[k].landingTime # NoTime)
    IN  SeqOf(Len(complete), LAMBDA j : sectors[complete[j]])

\* C27: a successful submission appends exactly one entry to the end of the
\* stored entry list, leaving the entries stored before unchanged and in
\* their order; the entry holds the form's rows that have all four fields,
\* in form order, and no other row; only clearAllData removes entries.
C27_SubmissionAppends ==
    [][/\ entryAddedCalls' # entryAddedCalls =>
            /\ entryAddedCalls' = entryAddedCalls + 1
            /\ Len(techlogEntries') = Len(techlogEntries) + 1
            /\ SubSeq(techlogEntries', 1, Len(techlogEntries)) = techlogEntries
            /\ techlogEntries'[Len(techlogEntries')].sectors = CompleteRows
            /\ techlogEntries'[Len(techlogEntries')].techlogNumber
                 = formData.techlogNumber
            /\ techlogEntries'[Len(techlogEntries')].pilotName = formData.pilotName
       /\ techlogEntries' # techlogEntries =>
            \/ entryAddedCalls' = entryAddedCalls + 1
            \/ techlogEntries' = <<>> /\ UNCHANGED <<formVars>>]_vars

\* two submissions: the first stored both rows of the form, HTZA before HTDA
\* as in the form, the second stored one row and left the first entry first
C27_Witness ==
    /\ entryAddedCalls = 2
    /\ Len(techlogEntries) = 2
    /\ Len(techlogEntries[1].sectors) = 2
    /\ techlogEntries[1].sectors[1].departure = "HTZA"
    /\ techlogEntries[1].sectors[2].departure = "HTDA"
    /\ Len(techlogEntries[2].sectors) = 1

-----------------------------------------------------------------------------
(* Flight time of edited and of stored sectors                             *)

\* the minutes from the takeoff to the landing, the landing taken on the
\* next day when its time of day is before the takeoff's, as hundredths of
\* an hour rounded to the nearest
WrappedCentiHours(takeoffTime, landingTime) ==
    LET takeoff == MinuteOfDay(takeoffTime)
        landing == MinuteOfDay(landingTime)
        minutes == IF landing < takeoff THEN landing + MinutesPerDay - takeoff
                   ELSE landing - takeoff
    IN  (10 * minutes + 3) \div 6

\* C28: after any sequence of takeoff-time and landing-time edits of a form
\* row, whenever both times of the row are populated its flightTime is the
\* overnight-wrapped duration between its two current times rounded to two
\* decimals; so every stored sector's flight time is at least zero and is
\* that duration of its stored takeoff and landing times.
C28_FlightTimeCurrent ==
    /\ \A index \in 1..Len(sectors) :
         (sectors[index].takeoffTime # NoTime /\ sectors[index].landingTime # NoTime) =>
           sectors[index].flightTime =
             WrappedCentiHours(sectors[index].takeoffTime, sectors[index].landingTime)
    /\ \A i \in 1..Len(techlogEntries) :
         \A k \in 1..Len(techlogEntries[i].sectors) :
           LET sector == techlogEntries[i].sectors[k]
           IN  /\ sector.flightTime >= 0
               /\ sector.flightTime =
                    WrappedCentiHours(sector.takeoffTime, sector.landingTime)

\* a sector stored as 23:30 to 06:10 with 6.67 hours, and the row of the
\* form edited to 06:10 and 23:30, showing 17.33 hours
C28_Witness ==
    /\ entryAddedCalls = 1
    /\ Len(techlogEntries) = 1
    /\ techlogEntries[1].sectors[1].takeoffTime = <<23, 30>>
    /\ techlogEntries[1].sectors[1].landingTime = <<6, 10>>
    /\ techlogEntries[1].sectors[1].flightTime = 667
    /\ sectors[1].takeoffTime = <<6, 10>>
    /\ sectors[1].landingTime = <<23, 30>>
    /\ sectors[1].flightTime = 1733

-----------------------------------------------------------------------------
(* The recent view within the full history                                 *)

\* C29: every rest period of the recent view is a rest period of the full
\* history, with the same dates, start, end, duration and compliance, and in
\* the same order; so the recent total is at most the full total, the recent
\* compliant count at most the full compliant count, and in both views the
\* compliant count is at most the total.
C29_RecentWithinFull ==
    \A pilotName \in PilotNames :
      LET rest == RestOf(pilotName)
          details == RestPeriodDetails(pilotName, techlogEntries)
          recent == rest.recentRestPeriodDetails
      IN  /\ \A k \in 1..Len(recent) : \E j \in 1..Len(details) : recent[k] = details[j]
          /\ \A k \in 1..(Len(recent) - 1) : recent[k].fromDate < recent[k + 1].fromDate
          /\ rest.recentRestPeriods = Len(recent)
          /\ rest.recentRestPeriods <= rest.totalRestPeriods
          /\ rest.recentCompliantRestPeriods <= rest.compliantRestPeriods
          /\ rest.compliantRestPeriods <= rest.totalRestPeriods
          /\ rest.recentCompliantRestPeriods <= rest.recentRestPeriods

\* the dashboard showing a pilot with duty days eight days ago, two days ago
\* and today: two rest periods in the full history, the first compliant, and
\* in the recent view the second only, which is not compliant
C29_Witness ==
    /\ RestLoaded("A. Smith")
    /\ DutyDates("A. Smith") = {Today - 8, Today - 2, Today}
    /\ restCompliance["A. Smith"].totalRestPeriods = 2
    /\ restCompliance["A. Smith"].compliantRestPeriods = 1
    /\ restCompliance["A. Smith"].recentRestPeriods = 1
    /\ restCompliance["A. Smith"].recentCompliantRestPeriods = 0
    /\ restCompliance["A. Smith"].recentRestPeriodDetails[1].fromDate = Today - 2

-----------------------------------------------------------------------------
(* Rest periods of entries created through the form                        *)

\* C30: for entries as the form creates them (calendar dates, at least one
\* sector each, times of day from 00:00 to 23:59) every rest period of a
\* pilot, in the full history and in the recent view, starts strictly before
\* it ends and so lasts more than zero minutes, and a pilot with duty dates
\* has one rest period fewer in the full history than distinct duty dates.
C30_RestPositive ==
    \A pilotName \in PilotNames :
      LET details == RestPeriodDetails(pilotName, techlogEntries)
          recent == RestOf(pilotName).recentRestPeriodDetails
      IN  /\ \A k \in 1..Len(details) :
               /\ details[k].start < details[k].end
               /\ details[k].hours > 0
          /\ \A k \in 1..Len(recent) :
               /\ recent[k].start < recent[k].end
               /\ recent[k].hours > 0
          /\ DutyDates(pilotName) # {} =>
               RestOf(pilotName).totalRestPeriods
                 = Cardinality(DutyDates(pilotName)) - 1

\* the dashboard showing a pilot who landed at 23:59 yesterday and took off
\* at 00:00 today, after a duty day the day before: two rest periods, the
\* second of 31 minutes
C30_Witness ==
    /\ RestLoaded("A. Smith")
    /\ DutyDates("A. Smith") = {Today - 2, Today - 1, Today}
    /\ restCompliance["A. Smith"].totalRestPeriods = 2
    /\ \E k \in 1..Len(RestPeriodDetails("A. Smith", techlogEntries)) :
         LET r == RestPeriodDetails("A. Smith", techlogEntries)[k]
         IN  /\ r.fromDate = Today - 1
             /\ r.toDate = Today
             /\ r.end - r.start = 31
             /\ r.hours = 31

====
